---- MODULE Spec2Model ----
(***************************************************************************)
(* sync-repo.py: synchronising a forked repository with its upstream.      *)
(*                                                                         *)
(* main() is a fixed sequence of calls (repo_remotes,                      *)
(* check_upstream_changes, stash_changes, sync_upstream,                   *)
(* update_submodules, commit_changes, stash_pop_changes).  Every call is   *)
(* one action; the git commands a call issues are recorded, in order, in   *)
(* `ops`.  A git command may raise: the exception is not caught (except    *)
(* around `git commit`), so the run stops there with pc = "aborted".       *)
(***************************************************************************)
EXTENDS Integers, Sequences, FiniteSets

\* ------------------------------------------------------------------ bounds
NumFiles == 1          \* tracked files that may carry local modifications
MaxSubmodules == 2     \* registered submodules
MaxTags == 1           \* tags present before the run
MaxRefs == 3           \* per-ref entries of one fetch result
MaxCalls == 2          \* consecutive calls of one function (SpecRemotes, SpecFetch)

\* ------------------------------------------------- configuration constants
UPSTREAM == ""                      \* sync-repo.py:24
UPSTREAM_BRANCH == "master"         \* sync-repo.py:28
HEAD_UPTODATE == 4                  \* the flag value compared at sync-repo.py:112

\* --------------------------------------------------------- input universes
FileNames == <<"a.txt", "b.txt", "c.txt">>
Files == {FileNames[i] : i \in 1..NumFiles}
Urls == {UPSTREAM, "git@fork", "git@stale"}
RemoteNames == {"origin", "upstream", "backup"}
SubmoduleNames == <<"sm1", "sm2", "sm3">>
Branches == {UPSTREAM_BRANCH, "feature-x"}
DETACHED == "(detached)"
\* FetchInfo flag values other than HEAD_UPTODATE: NEW_HEAD, FORCED_UPDATE,
\* FAST_FORWARD; each of them reports an updated ref.
FetchFlags == {2, HEAD_UPTODATE, 32, 64}
FetchResults == UNION {[1..n -> FetchFlags] : n \in 1..MaxRefs}
\* datetime.datetime.now(): year, month, day, hour, minute, second
Times == { [year |-> 2026, month |-> 11, day |-> 5, hour |-> 9, minute |-> 3, second |-> 7],
           [year |-> 1999, month |-> 12, day |-> 31, hour |-> 23, minute |-> 59, second |-> 59] }

VARIABLES
  pc,               \* position of main()
  repo,             \* the git repository: remotes, HEAD, index, work tree, stash,
                    \* tags, submodules
  current_branch,   \* main's local: the branch recorded at line 78
  upstream_changes, \* main's local: result of check_upstream_changes
  stashed_changes,  \* main's local: result of stash_changes
  fetch_info,       \* check_upstream_changes' local: the fetch result list
  ops,              \* history: git commands issued, in order
  log,              \* logger output, one entry per logger call
  failed,           \* history: the command that raised, << >> if none
  start,            \* history: `repo` as it was when the run started
  calls             \* history: number of calls of the function under test

vars == <<pc, repo, current_branch, upstream_changes, stashed_changes,
          fetch_info, ops, log, failed, start, calls>>

\* ------------------------------------------------------------- strftime
Digits == <<"0", "1", "2", "3", "4", "5", "6", "7", "8", "9">>
Digit(d) == Digits[d + 1]
Pad2(n) == <<Digit((n \div 10) % 10), Digit(n % 10)>>
Pad4(n) == <<Digit((n \div 1000) % 10), Digit((n \div 100) % 10)>> \o Pad2(n)

\* datetime.strftime("%Y-%m-%d-%H-%M-%S"), as a sequence of characters
Strftime(now) ==
  Pad4(now.year) \o <<"-">> \o Pad2(now.month) \o <<"-">> \o Pad2(now.day) \o <<"-">>
  \o Pad2(now.hour) \o <<"-">> \o Pad2(now.minute) \o <<"-">> \o Pad2(now.second)

\* ---------------------------------------------------------- git commands
\* The effect of each git command the script issues on the repository
\* record, when the command succeeds.

\* repo.create_remote(name, url)
CreateRemote(r, name, url) ==
  [r EXCEPT !.remotes = [n \in DOMAIN r.remotes \cup {name} |->
                           IF n = name THEN url ELSE r.remotes[n]]]

\* repo.delete_remote(name)
DeleteRemote(r, name) ==
  [r EXCEPT !.remotes = [n \in DOMAIN r.remotes \ {name} |-> r.remotes[n]]]

\* repo.git.stash(): index and work tree changes go to a new stash entry
GitStash(r) ==
  [r EXCEPT !.stash = <<r.staged \cup r.unstaged>> \o r.stash,
            !.staged = {}, !.unstaged = {}]

\* repo.git.stash('pop'): the top entry comes back as work tree changes
GitStashPop(r) ==
  [r EXCEPT !.unstaged = r.unstaged \cup Head(r.stash), !.stash = Tail(r.stash)]

\* repo.git.checkout(branch)
GitCheckout(r, branch) == [r EXCEPT !.head = branch]

\* repo.git.merge('upstream/<branch>'): the checked-out branch gets the
\* fetched upstream commits
GitMerge(r) == [r EXCEPT !.synced = [b \in Branches |-> b = r.head \/ r.synced[b]]]

\* repo.git.rebase(onto): the checked-out branch is replayed on `onto`
GitRebase(r, onto) ==
  [r EXCEPT !.synced = [b \in Branches |->
                          IF b = r.head THEN r.synced[onto] ELSE r.synced[b]]]

\* repo.git.commit('-m', ...): what is staged becomes a commit
GitCommit(r) == [r EXCEPT !.committed = r.committed \cup r.staged, !.staged = {}]

\* repo.git.push(): pushes the checked-out branch to the fork
GitPush(r) == [r EXCEPT !.pushed = r.pushed \cup {r.head}]

\* repo.git.push('--tags')
GitPushTags(r) == [r EXCEPT !.pushed_tags = r.tags]

\* repo.create_tag(tag, message=...)
CreateTag(r, tag) == [r EXCEPT !.tags = r.tags \cup {tag}]

\* sm_repo.git.stash(), sm_repo.submodule_update(), sm_repo.git.stash('pop')
\* on the submodule called `name`
SmIndex(r, name) == CHOOSE i \in DOMAIN r.submodules : r.submodules[i].name = name
SmStash(r, name) ==
  [r EXCEPT !.submodules[SmIndex(r, name)] =
              [@ EXCEPT !.changed = FALSE, !.stash = @ + 1]]
SmUpdate(r, name) ==
  [r EXCEPT !.submodules[SmIndex(r, name)] = [@ EXCEPT !.updated = TRUE]]
SmStashPop(r, name) ==
  [r EXCEPT !.submodules[SmIndex(r, name)] =
              [@ EXCEPT !.changed = TRUE, !.stash = @ - 1]]

\* ------------------------------------------------------------------ steps
\* A function of the script is the sequence of its steps: a git command
\* (op, arg) with the log lines written before and after it, or a log line
\* alone (op = "log").  A log entry is a tuple of strings, the message and
\* the name formatted into it.  The lines logged once per list entry (the
\* untracked files, the changed paths, the existing tags) and the tag name
\* in "Creating new tag: " are left out.
Step(op, arg, pre, post) == [op |-> op, arg |-> arg, pre |-> pre, post |-> post]
Say(line) == Step("log", "", <<line>>, << >>)
NoLog == << >>

\* The effect of a step that succeeds.
Exec(r, s, tag) ==
  CASE s.op = "create_remote" -> CreateRemote(r, s.arg, UPSTREAM)
    [] s.op = "delete_remote" -> DeleteRemote(r, s.arg)
    [] s.op = "stash"         -> GitStash(r)
    [] s.op = "stash_pop"     -> GitStashPop(r)
    [] s.op = "checkout"      -> GitCheckout(r, s.arg)
    [] s.op = "merge"         -> GitMerge(r)
    [] s.op = "rebase"        -> GitRebase(r, s.arg)
    [] s.op = "commit"        -> IF s.arg = "committed" THEN GitCommit(r) ELSE r
    [] s.op = "push"          -> IF s.arg = "--tags" THEN GitPushTags(r) ELSE GitPush(r)
    [] s.op = "create_tag"    -> CreateTag(r, tag)
    [] s.op = "sm_stash"      -> SmStash(r, s.arg)
    [] s.op = "sm_update"     -> SmUpdate(r, s.arg)
    [] s.op = "sm_stash_pop"  -> SmStashPop(r, s.arg)
    [] OTHER                  -> r

\* The commands whose exception ends the run.  `git commit` raises inside
\* the try block of commit_changes (lines 121-126); git stash and the remote
\* configuration commands only write local files and are taken to succeed.
Fallible(s) ==
  s.op \in {"checkout", "merge", "rebase", "push", "create_tag", "stash_pop",
            "sm_update", "sm_stash_pop"}
FailPoints(steps) == {0} \cup {i \in 1..Len(steps) : Fallible(steps[i])}

\* Runs steps[i..] in order; the step numbered failAt raises (0: none does).
RECURSIVE RunSteps(_, _, _, _, _)
RunSteps(res, steps, i, failAt, tag) ==
  IF i > Len(steps) THEN res
  ELSE LET s == steps[i]
           issued == IF s.op = "log" THEN << >> ELSE << <<s.op, s.arg>> >>
       IN IF i = failAt
            THEN [res EXCEPT !.ops = @ \o issued, !.log = @ \o s.pre, !.failed = <<s.op, s.arg>>]
            ELSE RunSteps([repo   |-> Exec(res.repo, s, tag),
                           ops    |-> res.ops \o issued,
                           log    |-> res.log \o s.pre \o s.post,
                           failed |-> << >>],
                          steps, i + 1, failAt, tag)
Run(r, steps, failAt, tag) ==
  RunSteps([repo |-> r, ops |-> << >>, log |-> << >>, failed |-> << >>], steps, 1, failAt, tag)

\* ----------------------------------------------------------- repo_remotes
\* repo_remotes without the comparison of the existing URL (line 165)
RepoRemotesNoUrlCheck(r) ==
  IF "upstream" \notin DOMAIN r.remotes
    THEN << Step("create_remote", "upstream",
                 << <<"upstream remote not found. Adding...">> >>,
                 << <<"upstream remote added successfully.">> >>) >>
    ELSE << >>

\* repo_remotes(logger, repo)
RepoRemotes(r) ==
  LET remotes == DOMAIN r.remotes
  IN IF "upstream" \notin remotes
       THEN << Step("create_remote", "upstream",
                    << <<"upstream remote not found. Adding...">> >>,
                    << <<"upstream remote added successfully.">> >>) >>
       ELSE IF r.remotes["upstream"] # UPSTREAM
         THEN << Step("delete_remote", "upstream",
                      << <<"upstream remote found but not correct. Changing...">> >>,
                      NoLog),
                 Step("create_remote", "upstream",
                      NoLog,
                      << <<"upstream remote successfully changed.">> >>) >>
         ELSE << >>

\* ------------------------------------------------- check_upstream_changes
\* check_upstream_changes(repo) on the list repo.remotes.upstream.fetch()
CheckUpstreamChanges(fetch) ==
  LET fetch_upstream == fetch[1]
  IN IF fetch_upstream = HEAD_UPTODATE THEN FALSE ELSE TRUE

\* ------------------------------------------------------------- get_status
\* get_status(logger, repo): the paths of repo.index.diff(None), the
\* differences between the index and the work tree.  Untracked files are
\* only logged.
GetStatus(r) == r.unstaged

\* ---------------------------------------------------------- stash_changes
\* stash_changes(logger, repo): its steps
StashChanges(r) ==
  LET changes == GetStatus(r)
  IN << Say(<<"Checking status of repo changes..">>) >>
     \o (IF changes # {}
           THEN << Step("stash", "",
                        << <<"Stashing the following uncommitted entries:">> >>, NoLog) >>
           ELSE << Say(<<"No uncommitted entries found.">>) >>)

\* stash_changes(logger, repo): its return value
StashChangesResult(r) == IF GetStatus(r) # {} THEN TRUE ELSE FALSE

\* ------------------------------------------------------ stash_pop_changes
\* stash_pop_changes that never pops
StashPopChangesNever(stashed) == << >>

\* stash_pop_changes(logger, repo, stashed_changes)
StashPopChanges(stashed) ==
  IF stashed = TRUE
    THEN << Step("stash_pop", "", << <<"Popping any stashed entries.">> >>, NoLog) >>
    ELSE << >>

\* ---------------------------------------------------------- sync_upstream
\* sync_upstream(logger, repo, current_branch)
SyncUpstream(branch) ==
  (IF branch # UPSTREAM_BRANCH
     THEN << Step("checkout", UPSTREAM_BRANCH,
                  << <<"Checking out master branch...">> >>,
                  << <<"master branch checked out.">> >>) >>
     ELSE << >>)
  \o << Step("merge", UPSTREAM_BRANCH,
             << <<"Merging any changes from upstream/master...">> >>,
             << <<"Any changes from upstream/master merged.">> >>) >>

\* ------------------------------------------------------ update_submodules
\* The loop body of update_submodules for the submodules sms[i..]
RECURSIVE SubmoduleSteps(_, _)
SubmoduleSteps(sms, i) ==
  IF i > Len(sms) THEN << >>
  ELSE LET sm == sms[i]
       IN (IF sm.changed
             THEN << Step("sm_stash", sm.name,
                          << <<"Stashing changed files found in submodule: ", sm.name>> >>,
                          NoLog) >>
             ELSE << >>)
          \o << Step("sm_update", sm.name,
                     << <<"Updating submodule: ", sm.name>> >>, NoLog) >>
          \o (IF sm.changed
                THEN << Step("sm_stash_pop", sm.name,
                             << <<"Popping stashed files found in submodule: ", sm.name>> >>,
                             NoLog) >>
                ELSE << >>)
          \o SubmoduleSteps(sms, i + 1)

\* update_submodules(logger, repo, repo_path, Repo)
UpdateSubmodules(r) ==
  LET sms == r.submodules
  IN << Say(<<"Gathering all submodules...">>) >>
     \o (IF Len(sms) > 0
           THEN SubmoduleSteps(sms, 1)
           ELSE << Say(<<"No submodules found.">>) >>)

\* ---------------------------------------------------------------- tagging
\* tagging(logger, repo)
Tagging(r) ==
  (IF r.tags # {} THEN << Say(<<"The following tags were found: ">>) >> ELSE << >>)
  \o << Step("create_tag", "", << <<"Creating new tag: ">> >>, NoLog) >>

\* --------------------------------------------------------- commit_changes
\* What `git commit -m` can do: it commits what is staged, exits non-zero
\* with "nothing to commit" when nothing is staged, or fails otherwise (a
\* hook, a missing identity, a locked index).
CommitOutcomes(r) ==
  IF r.staged = {} THEN {"nothing to commit", "error"} ELSE {"committed", "error"}

\* The original branch is restored before the commit (the order of the
\* spec's scenario)
CommitChangesRestoreFirst(r, branch, outcome) ==
  (IF branch # UPSTREAM_BRANCH
     THEN << Step("checkout", branch,
                  << <<"Checking out original branch: ", branch>> >>, NoLog),
             Step("rebase", UPSTREAM_BRANCH,
                  << <<"Rebasing with local master to include any changes.">> >>, NoLog) >>
     ELSE << >>)
  \o << Step("commit", outcome,
             << <<"Committing any new changes...">> >>,
             IF outcome = "committed"
               THEN << <<"Any new changes have been committed.">> >>
               ELSE << <<"No changes have been found to commit.">> >>),
        Step("push", "",
             << <<"Pushing any new changes to forked repo...">> >>,
             << <<"All new changes have been pushed to forked repo.">> >>) >>
  \o Tagging(r)
  \o << Step("push", "--tags", << <<"Pushing any tags.">> >>, NoLog) >>

\* commit_changes without lines 133-137: the original branch is not restored
CommitChangesNoRestore(r, branch, outcome) ==
  << Step("commit", outcome,
          << <<"Committing any new changes...">> >>,
          IF outcome = "committed"
            THEN << <<"Any new changes have been committed.">> >>
            ELSE << <<"No changes have been found to commit.">> >>),
     Step("push", "",
          << <<"Pushing any new changes to forked repo...">> >>,
          << <<"All new changes have been pushed to forked repo.">> >>) >>
  \o Tagging(r)
  \o << Step("push", "--tags", << <<"Pushing any tags.">> >>, NoLog) >>

\* commit_changes with tagging() called before the push of the commits
CommitChangesTagFirst(r, branch, outcome) ==
  << Step("commit", outcome,
          << <<"Committing any new changes...">> >>,
          IF outcome = "committed"
            THEN << <<"Any new changes have been committed.">> >>
            ELSE << <<"No changes have been found to commit.">> >>) >>
  \o Tagging(r)
  \o << Step("push", "",
             << <<"Pushing any new changes to forked repo...">> >>,
             << <<"All new changes have been pushed to forked repo.">> >>),
        Step("push", "--tags", << <<"Pushing any tags.">> >>, NoLog) >>
  \o (IF branch # UPSTREAM_BRANCH
        THEN << Step("checkout", branch,
                     << <<"Checking out original branch: ", branch>> >>, NoLog),
                Step("rebase", UPSTREAM_BRANCH,
                     << <<"Rebasing with local master to include any changes.">> >>,
                     NoLog) >>
        ELSE << >>)

\* commit_changes(logger, repo, current_branch); `outcome` is what the
\* commit did
CommitChanges(r, branch, outcome) ==
  << Step("commit", outcome,
          << <<"Committing any new changes...">> >>,
          IF outcome = "committed"
            THEN << <<"Any new changes have been committed.">> >>
            ELSE << <<"No changes have been found to commit.">> >>),
     Step("push", "",
          << <<"Pushing any new changes to forked repo...">> >>,
          << <<"All new changes have been pushed to forked repo.">> >>) >>
  \o Tagging(r)
  \o << Step("push", "--tags", << <<"Pushing any tags.">> >>, NoLog) >>
  \o (IF branch # UPSTREAM_BRANCH
        THEN << Step("checkout", branch,
                     << <<"Checking out original branch: ", branch>> >>, NoLog),
                Step("rebase", UPSTREAM_BRANCH,
                     << <<"Rebasing with local master to include any changes.">> >>,
                     NoLog) >>
        ELSE << >>)

\* ------------------------------------------------------------------- Init
TagNames == {Strftime(t) : t \in Times}
RemoteConfigs == UNION {[S -> Urls] : S \in SUBSET RemoteNames}
\* a clone of the fork: origin is the fork, upstream is absent or has any URL
ForkRemotes ==
  {f \in RemoteConfigs : DOMAIN f \subseteq {"origin", "upstream"}
                         /\ "origin" \in DOMAIN f /\ f["origin"] = "git@fork"}
SubmoduleLists ==
  UNION {{[i \in 1..n |-> [name |-> SubmoduleNames[i], changed |-> c[i],
                           stash |-> 0, updated |-> FALSE]] : c \in [1..n -> BOOLEAN]}
         : n \in 0..MaxSubmodules}
Repos(remoteConfigs, heads) ==
  [remotes     : remoteConfigs,
   head        : heads,
   staged      : SUBSET Files,
   unstaged    : SUBSET Files,
   stash       : {<< >>, << {FileNames[1]} >>},
   tags        : {T \in SUBSET TagNames : Cardinality(T) <= MaxTags},
   pushed_tags : {{}},
   synced      : {[b \in Branches |-> FALSE]},
   committed   : {{}},
   pushed      : {{}},
   submodules  : SubmoduleLists]

InitLocals ==
  /\ current_branch = ""
  /\ upstream_changes = FALSE
  /\ stashed_changes = FALSE
  /\ fetch_info = << >>
  /\ ops = << >>
  /\ failed = << >>
  /\ start = repo
  /\ calls = 0

\* main() up to line 75: logging is set up, the repository is opened and is
\* not bare
Init ==
  /\ pc = "start"
  /\ repo \in Repos(ForkRemotes, Branches \cup {DETACHED})
  /\ log = << <<"Started">> >>
  /\ InitLocals

\* --------------------------------------------------------------- actions
\* A call whose exception is swallowed: main() goes on with the next call
CallContinue(steps, failAt, tag, next) ==
  LET res == Run(repo, steps, failAt, tag)
  IN /\ repo' = res.repo
     /\ ops' = ops \o res.ops
     /\ log' = log \o res.log
     /\ failed' = res.failed
     /\ pc' = next

\* One call made by main(): its steps run until one raises, and an exception
\* ends main().
Call(steps, failAt, tag, next) ==
  LET res == Run(repo, steps, failAt, tag)
  IN /\ repo' = res.repo
     /\ ops' = ops \o res.ops
     /\ log' = log \o res.log
     /\ failed' = res.failed
     /\ pc' = IF res.failed = << >> THEN next ELSE "aborted"

\* line 78: current_branch = repo.active_branch (raises on a detached HEAD)
CaptureBranch ==
  /\ pc = "start"
  /\ IF repo.head = DETACHED
       THEN /\ pc' = "aborted"
            /\ failed' = <<"active_branch", "">>
            /\ UNCHANGED current_branch
       ELSE /\ pc' = "remotes"
            /\ current_branch' = repo.head
            /\ UNCHANGED failed
  /\ UNCHANGED <<repo, upstream_changes, stashed_changes, fetch_info, ops, log,
                 start, calls>>

\* line 81: repo_remotes(logger, repo)
SetupRemotes ==
  /\ pc = "remotes"
  /\ Call(RepoRemotes(repo), 0, << >>, "fetch")
  /\ calls' = calls + 1
  /\ UNCHANGED <<current_branch, upstream_changes, stashed_changes, fetch_info, start>>

\* line 84: upstream_changes = check_upstream_changes(repo)
CheckUpstream ==
  /\ pc = "fetch"
  /\ ops' = Append(ops, <<"fetch", "upstream">>)
  /\ \/ /\ pc' = "aborted"
        /\ failed' = <<"fetch", "upstream">>
        /\ UNCHANGED upstream_changes
     \/ \E fetch \in FetchResults :
          /\ upstream_changes' = CheckUpstreamChanges(fetch)
          /\ pc' = "gate"
          /\ UNCHANGED failed
  /\ UNCHANGED <<repo, current_branch, stashed_changes, fetch_info, log, start, calls>>

\* lines 103-104: the else branch of `if upstream_changes`
NoUpstreamChanges ==
  /\ pc = "gate"
  /\ ~upstream_changes
  /\ log' = Append(log, <<"No upstream changes found.">>)
  /\ pc' = "finish"
  /\ UNCHANGED <<repo, current_branch, upstream_changes, stashed_changes, fetch_info,
                 ops, failed, start, calls>>

\* The stash step without the test of line 86 (the ungated workflow)
DoStashChangesUngated ==
  /\ pc = "gate"
  /\ Call(StashChanges(repo), 0, << >>, "sync")
  /\ stashed_changes' = StashChangesResult(repo)
  /\ UNCHANGED <<current_branch, upstream_changes, fetch_info, start, calls>>

\* lines 86-89: stashed_changes = stash_changes(logger, repo)
DoStashChanges ==
  /\ pc = "gate"
  /\ upstream_changes
  /\ Call(StashChanges(repo), 0, << >>, "sync")
  /\ stashed_changes' = StashChangesResult(repo)
  /\ UNCHANGED <<current_branch, upstream_changes, fetch_info, start, calls>>

\* line 92: sync_upstream(logger, repo, current_branch)
DoSyncUpstream ==
  /\ pc = "sync"
  /\ LET steps == SyncUpstream(current_branch)
     IN \E failAt \in FailPoints(steps) : Call(steps, failAt, << >>, "submodules")
  /\ UNCHANGED <<current_branch, upstream_changes, stashed_changes, fetch_info,
                 start, calls>>

\* line 95: update_submodules(logger, repo, repo_path, Repo)
DoUpdateSubmodules ==
  /\ pc = "submodules"
  /\ LET steps == UpdateSubmodules(repo)
     IN \E failAt \in FailPoints(steps) : Call(steps, failAt, << >>, "commit")
  /\ UNCHANGED <<current_branch, upstream_changes, stashed_changes, fetch_info,
                 start, calls>>

\* line 98: commit_changes(logger, repo, current_branch).  create_tag raises
\* when a tag of that name exists.
DoCommitChanges ==
  /\ pc = "commit"
  /\ \E outcome \in CommitOutcomes(repo), now \in Times :
       LET steps == CommitChanges(repo, current_branch, outcome)
           tag == Strftime(now)
           tagAt == CHOOSE i \in 1..Len(steps) : steps[i].op = "create_tag"
       IN \E failAt \in FailPoints(steps) :
            /\ tag \in repo.tags => failAt \in 1..tagAt
            /\ Call(steps, failAt, tag, "pop")
  /\ UNCHANGED <<current_branch, upstream_changes, stashed_changes, fetch_info,
                 start, calls>>

\* line 101: stash_pop_changes(logger, repo, stashed_changes)
DoStashPopChanges ==
  /\ pc = "pop"
  /\ LET steps == StashPopChanges(stashed_changes)
     IN \E failAt \in FailPoints(steps) : Call(steps, failAt, << >>, "finish")
  /\ UNCHANGED <<current_branch, upstream_changes, stashed_changes, fetch_info,
                 start, calls>>

\* line 106: logger.info('Finished')
Finish ==
  /\ pc = "finish"
  /\ log' = Append(log, <<"Finished">>)
  /\ pc' = "done"
  /\ UNCHANGED <<repo, current_branch, upstream_changes, stashed_changes, fetch_info,
                 ops, failed, start, calls>>

Next ==
  \/ CaptureBranch
  \/ SetupRemotes
  \/ CheckUpstream
  \/ NoUpstreamChanges
  \/ DoStashChanges
  \/ DoSyncUpstream
  \/ DoUpdateSubmodules
  \/ DoCommitChanges
  \/ DoStashPopChanges
  \/ Finish

Spec == Init /\ [][Next]_vars

\* ------------------------------------------- repo_remotes, called in a row
InitRemotes ==
  /\ pc = "remotes"
  /\ repo \in Repos(RemoteConfigs, {UPSTREAM_BRANCH})
  /\ repo.staged = {} /\ repo.unstaged = {} /\ repo.stash = << >>
  /\ repo.tags = {} /\ repo.submodules = << >>
  /\ log = << >>
  /\ InitLocals

\* repo_remotes(logger, repo) once more on the repository it left
EnsureUpstreamRemote ==
  /\ pc = "remotes"
  /\ calls < MaxCalls
  /\ LET res == Run(repo, RepoRemotes(repo), 0, << >>)
     IN /\ repo' = res.repo
        /\ ops' = res.ops
        /\ log' = res.log
  /\ calls' = calls + 1
  /\ UNCHANGED <<pc, current_branch, upstream_changes, stashed_changes, fetch_info,
                 failed, start>>

NextRemotes == EnsureUpstreamRemote

SpecRemotes == InitRemotes /\ [][NextRemotes]_vars

\* ------------------------------------- check_upstream_changes on its input
InitFetch ==
  /\ pc = "fetch"
  /\ repo \in Repos({[n \in {"origin", "upstream"} |->
                        IF n = "origin" THEN "git@fork" ELSE UPSTREAM]},
                    {UPSTREAM_BRANCH})
  /\ repo.staged = {} /\ repo.unstaged = {} /\ repo.stash = << >>
  /\ repo.tags = {} /\ repo.submodules = << >>
  /\ log = << >>
  /\ InitLocals

\* check_upstream_changes(repo) on one fetch result
FetchAndCheck ==
  /\ pc = "fetch"
  /\ calls < MaxCalls
  /\ \E fetch \in FetchResults :
       /\ fetch_info' = fetch
       /\ upstream_changes' = CheckUpstreamChanges(fetch)
  /\ ops' = << <<"fetch", "upstream">> >>
  /\ calls' = calls + 1
  /\ UNCHANGED <<pc, repo, current_branch, stashed_changes, log, failed, start>>

NextFetch == FetchAndCheck

SpecFetch == InitFetch /\ [][NextFetch]_vars

\* ============================================================ properties
Has(o) == \E i \in DOMAIN ops : ops[i] = o
IndexOf(o) == CHOOSE i \in DOMAIN ops : ops[i] = o
OpsOf(name) == {i \in DOMAIN ops : ops[i][1] = name}
Count(name) == Cardinality(OpsOf(name))
Uncommitted(r) == r.staged \cup r.unstaged
IsPrefix(s, u) == Len(s) <= Len(u) /\ SubSeq(u, 1, Len(s)) = s
Fetch == <<"fetch", "upstream">>
Stash == <<"stash", "">>
StashPop == <<"stash_pop", "">>
Merge == <<"merge", UPSTREAM_BRANCH>>
Rebase == <<"rebase", UPSTREAM_BRANCH>>
Push == <<"push", "">>
PushTags == <<"push", "--tags">>
CreateTagOp == <<"create_tag", "">>
Checkout(b) == <<"checkout", b>>
SubmoduleCommands == {"sm_stash", "sm_update", "sm_stash_pop"}
\* the commands on the main repository after the fetch, the commit without
\* its outcome
MainOps ==
  LET kept == SelectSeq(ops, LAMBDA o : o[1] \notin
                  SubmoduleCommands \cup {"fetch", "create_remote", "delete_remote"})
  IN [i \in DOMAIN kept |-> IF kept[i][1] = "commit" THEN <<"commit", "">> ELSE kept[i]]
SubmoduleOps == {i \in DOMAIN ops : ops[i][1] \in SubmoduleCommands}

\* ---------------------------------------------------------------------- C1
\* C1: when check_upstream_changes returned false, nothing is issued after
\* the fetch (no stash, checkout, merge, submodule update, commit, push, tag
\* or rebase), the repository is as repo_remotes left it, and the run ends
\* with "No upstream changes found." as its last log line before 'Finished'.
C1_NoMutationWithoutChanges ==
  (~upstream_changes /\ Has(Fetch)) =>
    /\ ops[Len(ops)] = Fetch
    /\ pc \in {"gate", "finish", "done", "aborted"}
    /\ pc = "aborted" => failed = Fetch
    /\ [repo EXCEPT !.remotes = start.remotes] = start
    /\ pc = "finish" => log[Len(log)] = <<"No upstream changes found.">>
    /\ pc = "done" => /\ log[Len(log) - 1] = <<"No upstream changes found.">>
                      /\ log[Len(log)] = <<"Finished">>

C1_Witness ==
  /\ pc = "done" /\ ~upstream_changes
  /\ start.unstaged # {} /\ start.head # UPSTREAM_BRANCH
  /\ Len(start.submodules) > 0

\* ---------------------------------------------------------------------- C2
Scenario == upstream_changes /\ start.unstaged # {} /\ current_branch = "feature-x"
ClaimedOrder ==
  << Stash, Checkout(UPSTREAM_BRANCH), Merge, Checkout("feature-x"), Rebase,
     <<"commit", "">>, Push, CreateTagOp, PushTags, StashPop >>
CodeOrder ==
  << Stash, Checkout(UPSTREAM_BRANCH), Merge, <<"commit", "">>, Push, CreateTagOp,
     PushTags, Checkout("feature-x"), Rebase, StashPop >>

\* C2 as stated: in the dirty feature-x scenario without a failing step the
\* commands are stash, checkout default, merge, submodules, checkout
\* feature-x, rebase, commit, push, tag, push tags, stash pop.
C2_ClaimedOrder ==
  (Scenario /\ pc = "done") =>
    /\ MainOps = ClaimedOrder
    /\ \A i \in SubmoduleOps : IndexOf(Merge) < i /\ i < IndexOf(Checkout("feature-x"))

\* C2 amended: in that scenario the commands are stash, checkout default,
\* merge, submodules, commit, push, tag, push tags, checkout feature-x,
\* rebase, stash pop: the issued commands are always a prefix of that order,
\* all of it when no step fails, the submodule commands between the merge and
\* the commit, one update per submodule.
C2_CodeOrder ==
  Scenario =>
    /\ IsPrefix(MainOps, CodeOrder)
    /\ \A i \in SubmoduleOps :
         /\ Has(Merge) /\ IndexOf(Merge) < i
         /\ \A j \in OpsOf("commit") : i < j
    /\ pc = "done" => /\ MainOps = CodeOrder
                      /\ Count("sm_update") = Len(repo.submodules)

C2_Witness ==
  /\ Scenario /\ pc = "done"
  /\ Len(repo.submodules) > 0
  /\ MainOps = CodeOrder

\* ---------------------------------------------------------------------- C3
\* C3 as stated: in every run that has ended, aborted runs included, a
\* created stash entry was followed by a stash pop.
C3_StashAlwaysPopped ==
  (pc \in {"done", "aborted"} /\ Has(Stash)) => Has(StashPop)

\* C3 amended: a created stash entry is popped, once and after its creation,
\* in every run that reaches the end of main(); a run that aborts on a step
\* between the stash and the pop issues no stash pop and leaves the entry on
\* the stash stack.  A pop is never issued without a stash.
C3_StashPoppedOnCompletion ==
  /\ Count("stash_pop") <= Count("stash")
  /\ (pc = "done" /\ Has(Stash)) =>
       /\ Count("stash_pop") = 1
       /\ IndexOf(Stash) < IndexOf(StashPop)
       /\ repo.stash = start.stash
  /\ (pc = "aborted" /\ Has(Stash) /\ failed # StashPop) =>
       /\ ~Has(StashPop)
       /\ repo.stash = << Uncommitted(start) >> \o start.stash

C3_Witness ==
  /\ pc = "done" /\ Has(Stash) /\ Has(StashPop)
  /\ current_branch # UPSTREAM_BRANCH

\* ---------------------------------------------------------------------- C4
\* C4: when the merge of sync_upstream raises, the run is aborted with the
\* merge as its last command: no submodule command, commit, push, tag,
\* rebase or checkout of the original branch follows, nothing was tagged or
\* pushed, and a stash created in the run is still on the stash stack.
C4_MergeConflictAborts ==
  failed = Merge =>
    /\ pc = "aborted"
    /\ upstream_changes
    /\ ops[Len(ops)] = Merge /\ Count("merge") = 1
    /\ \A name \in SubmoduleCommands \cup
                   {"commit", "push", "create_tag", "rebase", "stash_pop"} :
         Count(name) = 0
    /\ \A i \in OpsOf("checkout") : ops[i] = Checkout(UPSTREAM_BRANCH)
    /\ repo.tags = start.tags /\ repo.pushed = {} /\ repo.committed = {}
    /\ stashed_changes => /\ Has(Stash)
                          /\ repo.stash = << Uncommitted(start) >> \o start.stash

C4_Witness ==
  /\ pc = "aborted" /\ failed = Merge
  /\ stashed_changes /\ current_branch # UPSTREAM_BRANCH

\* ---------------------------------------------------------------------- C5
\* C5 as stated: in a change-bearing run that completes the uncommitted
\* tracked modifications are those of the start; a stash is created exactly
\* when the index differs from the work tree, before any checkout, and is
\* popped exactly when it was created.
C5_ModificationsPreserved ==
  (pc = "done" /\ upstream_changes) =>
    /\ Uncommitted(repo) = Uncommitted(start)
    /\ Has(Stash) <=> start.unstaged # {}
    /\ Count("stash") <= 1 /\ Count("stash_pop") = Count("stash")
    /\ \A i \in OpsOf("checkout") : Has(Stash) => IndexOf(Stash) < i
    /\ start.unstaged = {} => ~Has(Stash) /\ ~Has(StashPop)

\* ---------------------------------------------------------------------- C6
\* C6 as stated: in every change-bearing run that has ended, aborted runs
\* included, a non-default start branch is checked out again and rebased.
C6_BranchAlwaysRestored ==
  (pc \in {"done", "aborted"} /\ upstream_changes /\ start.head # UPSTREAM_BRANCH) =>
    /\ repo.head = start.head
    /\ repo.synced[start.head]

\* C6 amended: the branch recorded is the one active at invocation; in a
\* change-bearing run whose steps up to the rebase all succeed a non-default
\* start branch is checked out again and rebased onto the merged default
\* branch, the checkout and the rebase being the last two commands before
\* the stash pop; when the start branch is the default branch no checkout
\* and no rebase is issued.
C6_BranchRestoredOnCompletion ==
  /\ (pc # "start" /\ failed # <<"active_branch", "">>) => current_branch = start.head
  /\ ( /\ upstream_changes /\ current_branch # UPSTREAM_BRANCH
       /\ (pc \in {"pop", "finish", "done"} \/ failed = StashPop) ) =>
       /\ repo.head = start.head
       /\ repo.synced[UPSTREAM_BRANCH] /\ repo.synced[start.head]
       /\ Count("rebase") = 1 /\ Count("checkout") = 2
       /\ IndexOf(Checkout(UPSTREAM_BRANCH)) < IndexOf(Merge)
       /\ IndexOf(Merge) < IndexOf(Checkout(start.head))
       /\ IndexOf(Rebase) = IndexOf(Checkout(start.head)) + 1
  /\ current_branch = UPSTREAM_BRANCH =>
       /\ Count("checkout") = 0 /\ Count("rebase") = 0
       /\ repo.head = UPSTREAM_BRANCH

C6_Witness ==
  /\ pc = "done" /\ upstream_changes
  /\ start.head = "feature-x" /\ repo.head = "feature-x"
  /\ Has(Rebase)

\* ---------------------------------------------------------------------- C7
\* what repo_remotes is to leave of a remote configuration
ExpectedRemotes(rm) ==
  [n \in DOMAIN rm \cup {"upstream"} |-> IF n = "upstream" THEN UPSTREAM ELSE rm[n]]

\* C7: after repo_remotes the remote "upstream" exists with the configured
\* URL and the other remotes are as they were; the first call issues one
\* create when upstream was absent, one delete and one create when its URL
\* was incorrect, nothing when it was correct; a second call in a row issues
\* nothing and changes nothing.
C7_EnsureUpstreamRemote ==
  calls >= 1 =>
    /\ "upstream" \in DOMAIN repo.remotes
    /\ repo.remotes["upstream"] = UPSTREAM
    /\ repo = [start EXCEPT !.remotes = ExpectedRemotes(start.remotes)]
    /\ calls = 1 =>
         ops = IF "upstream" \notin DOMAIN start.remotes
                 THEN << <<"create_remote", "upstream">> >>
                 ELSE IF start.remotes["upstream"] # UPSTREAM
                   THEN << <<"delete_remote", "upstream">>, <<"create_remote", "upstream">> >>
                   ELSE << >>
    /\ calls >= 2 => ops = << >> /\ log = << >>

C7_Witness ==
  /\ calls = 2
  /\ "upstream" \in DOMAIN start.remotes /\ start.remotes["upstream"] = "git@stale"
  /\ "backup" \in DOMAIN start.remotes
  /\ repo.remotes["upstream"] = UPSTREAM

\* ---------------------------------------------------------------------- C8
DigitSet == {Digits[i] : i \in DOMAIN Digits}
\* YYYY-MM-DD-HH-MM-SS
IsTimestampName(t) ==
  /\ Len(t) = 19
  /\ \A i \in 1..19 : IF i \in {5, 8, 11, 14, 17} THEN t[i] = "-" ELSE t[i] \in DigitSet
PushSucceeded == Has(Push) /\ failed # Push
TagCreated == Has(CreateTagOp) /\ failed # CreateTagOp

\* C8: once the push of the commits has succeeded create-tag is issued
\* exactly once, after that push and before the push of the tags, whatever
\* the commit attempt reported; without a successful push no tag is created;
\* a created tag is one new tag named YYYY-MM-DD-HH-MM-SS; no tag is deleted.
C8_OneTagPerPush ==
  /\ Count("create_tag") <= 1
  /\ PushSucceeded => /\ Count("create_tag") = 1
                      /\ IndexOf(Push) < IndexOf(CreateTagOp)
  /\ Has(PushTags) => /\ TagCreated
                      /\ IndexOf(CreateTagOp) < IndexOf(PushTags)
  /\ ~PushSucceeded => /\ Count("create_tag") = 0
                       /\ repo.tags = start.tags
  /\ start.tags \subseteq repo.tags
  /\ TagCreated => /\ Cardinality(repo.tags \ start.tags) = 1
                   /\ \A t \in repo.tags \ start.tags : IsTimestampName(t)
  /\ ~TagCreated => repo.tags = start.tags

C8_Witness ==
  /\ pc = "done"
  /\ Has(<<"commit", "nothing to commit">>)
  /\ start.tags # {}
  /\ Cardinality(repo.tags) = Cardinality(start.tags) + 1
  /\ repo.pushed_tags = repo.tags

\* ---------------------------------------------------------------------- C9
\* C9 as stated: a commit that fails for another reason than "nothing to
\* commit" ends the run: it is the last command issued, so no push, tag
\* creation or tag push follows it.
C9_CommitFailureIsFatal ==
  \A i \in DOMAIN ops :
    ops[i] = <<"commit", "error">> => (i = Len(ops) /\ pc = "aborted")

\* --------------------------------------------------------------------- C10
\* C10 as stated: check_upstream_changes returns false if and only if no
\* entry of the fetch result reports an updated ref.
C10_FalseIffNoRefUpdated ==
  calls >= 1 =>
    (upstream_changes = FALSE <=>
       \A i \in DOMAIN fetch_info : fetch_info[i] = HEAD_UPTODATE)

====
